---- MODULE Spec2Model ----
(***************************************************************************)
(* A model of rust-biomart: the QueryBuilder and the XML document it       *)
(* builds (src/src/lib.rs 333-496), and the MartClient operations with     *)
(* their body decoders (src/src/lib.rs 27-215, src/src/definitions.rs).    *)
(*                                                                         *)
(* A string is a sequence of tokens; a token is one character, or an       *)
(* opaque run of characters the modelled code never looks into.            *)
(***************************************************************************)
EXTENDS Integers, Sequences, FiniteSets

VARIABLES
    mart,        \* QueryBuilder.mart
    dataset,     \* QueryBuilder.dataset
    filters,     \* QueryBuilder.filters: sequence of <<name, FilterOperation>>
    attributes,  \* QueryBuilder.attributes: sequence of names
    docs,        \* the Query documents build() has returned so far
    built,       \* history: the builder state each document was built from
    calls,       \* history: the filters and attributes in the order added
    steps,       \* history: the number of QueryBuilder calls made so far
    pc,          \* MartClient caller: "idle", "returned" or "panicked"
    op,          \* the MartClient operation called last
    response,    \* what the transport answered to that call
    requests,    \* the requests that call sent to the transport
    parsed,      \* how often that call ran its body decoder
    result,      \* what that call returned
    raw,         \* the raw text of the Response the caller holds
    views        \* history: what raw(), header() and records() returned

builderVars == <<mart, dataset, filters, attributes>>
queryVars == <<mart, dataset, filters, attributes, docs, built, calls, steps>>
clientVars == <<pc, op, response, requests, parsed, result>>
responseVars == <<raw, views>>
vars == <<mart, dataset, filters, attributes, docs, built, calls, steps,
          pc, op, response, requests, parsed, result, raw, views>>

\* ------------------------------------------------------------------ bounds
MaxOps == 4
MaxRootOrders == 2
MaxMarts == 1
MaxRows == 2
MaxOptionLen == 3
MaxViews == 2

\* ------------------------------------------------------------ string tools
Str(tok) == <<tok>>

RECURSIVE Concat(_)
\* Concatenation of a sequence of strings.
Concat(ss) == IF ss = <<>> THEN <<>> ELSE Head(ss) \o Concat(Tail(ss))

RECURSIVE Join(_, _)
\* Itertools::join: the items separated by sep, the empty string for no item.
Join(ss, sep) ==
    IF ss = <<>> THEN <<>>
    ELSE IF Len(ss) = 1 THEN ss[1]
    ELSE ss[1] \o Str(sep) \o Join(Tail(ss), sep)

SeqsUpTo(S, n) == UNION {[1..k -> S] : k \in 0..n}

Rotate(s, k) == [i \in 1..Len(s) |-> s[((i - 1 + k) % Len(s)) + 1]]

\* ---------------------------------------------------------- xmltree Element
\* An Element is [name, attributes, children]. attributes is a HashMap; it is
\* kept as the sequence of its <<key, value>> entries in iteration order.

\* The possible iteration orders of a HashMap holding the entries of the
\* function m: each map has its own RandomState, any arrangement can occur.
HashOrders(m) ==
    LET K == DOMAIN m
        n == Cardinality(K)
    IN  {[i \in 1..n |-> <<o[i], m[o[i]]>>] :
            o \in {f \in [1..n -> K] : \A i, j \in 1..n : f[i] = f[j] => i = j}}

Keys(attrs) == {attrs[i][1] : i \in 1..Len(attrs)}

\* HashMap::get
Get(attrs, k) == attrs[CHOOSE i \in 1..Len(attrs) : attrs[i][1] = k][2]

\* HashMap::insert of a key the map holds: the value is replaced in place.
Insert(attrs, k, v) ==
    [i \in 1..Len(attrs) |-> IF attrs[i][1] = k THEN <<k, v>> ELSE attrs[i]]

\* Element::get_mut_child: the first child element of that name.
ChildIndex(e, name) ==
    CHOOSE i \in 1..Len(e.children) :
        /\ e.children[i].name = name
        /\ \A j \in 1..(i - 1) : e.children[j].name # name

Element(name, attrs) == [name |-> name, attributes |-> attrs, children |-> <<>>]

\* v.children.push(child) on the Dataset child of the query
PushDatasetChild(q, child) ==
    LET d == ChildIndex(q, "Dataset")
    IN  [q EXCEPT !.children[d].children = Append(@, child)]

\* ------------------------------------------------------------ Query document
REQUEST_ID == Str("rust-biomart")

\* The attributes of the Query element of the default document, as written.
DefaultAttributes ==
    << <<"virtualSchemaName", Str("default")>>,
       <<"uniqueRows", Str("1")>>,
       <<"count", Str("0")>>,
       <<"datasetConfigVersion", Str("0.6")>>,
       <<"header", Str("1")>>,
       <<"formatter", Str("TSV")>>,
       <<"requestid", REQUEST_ID>> >>

\* Iteration orders of the Query element's attribute map that the model
\* explores (MaxRootOrders of the arrangements).
RootOrders == {Rotate(DefaultAttributes, k) : k \in 0..(MaxRootOrders - 1)}

\* impl Default for Query: the parsed default document, its Query attributes
\* in iteration order rootAttrs.
QueryDefault(rootAttrs) ==
    [name |-> "Query",
     attributes |-> rootAttrs,
     children |-> << Element("Dataset", << <<"name", <<>>>> >>) >>]

\* ------------------------------------------------------------- QueryBuilder
Match(values) == [op |-> "Match", values |-> values]
Include == [op |-> "Include", values |-> <<>>]
Exclude == [op |-> "Exclude", values |-> <<>>]

\* The hashmap! of one filter entry (build, the match on FilterOperation).
FilterAttributesExcludeSwapped(name, operation) ==
    IF operation.op = "Match"
    THEN [k \in {"name", "value"} |->
            IF k = "name" THEN name ELSE Join(operation.values, ",")]
    ELSE [k \in {"name", "excluded"} |->
            IF k = "name" THEN name
            ELSE IF operation.op = "Exclude" THEN Str("0") ELSE Str("1")]

FilterAttributes(name, operation) ==
    IF operation.op = "Match"
    THEN [k \in {"name", "value"} |->
            IF k = "name" THEN name ELSE Join(operation.values, ",")]
    ELSE [k \in {"name", "excluded"} |->
            IF k = "name" THEN name
            ELSE IF operation.op = "Exclude" THEN Str("1") ELSE Str("0")]

\* The Filter elements one filter entry can become (one per iteration order).
FilterElements(f) ==
    {Element("Filter", a) : a \in HashOrders(FilterAttributes(f[1], f[2]))}

AttributeElement(a) == Element("Attribute", << <<"name", a>> >>)

RECURSIVE PushAllFront(_, _)
PushAllFront(q, elems) ==
    IF elems = <<>> THEN q
    ELSE PushDatasetChild(PushAllFront(q, Tail(elems)), Head(elems))

\* The for loops of build(): each element pushed in turn.
RECURSIVE PushAll(_, _)
PushAll(q, elems) ==
    IF elems = <<>> THEN q
    ELSE PushAll(PushDatasetChild(q, Head(elems)), Tail(elems))

BuildWithAttributesFirst(rootAttrs, ds, filterElems, attrs) ==
    LET q0 == QueryDefault(rootAttrs)
        d  == ChildIndex(q0, "Dataset")
        q1 == [q0 EXCEPT !.children[d].attributes = Insert(@, "name", ds)]
        q2 == PushAll(q1, [i \in 1..Len(attrs) |-> AttributeElement(attrs[i])])
    IN  PushAll(q2, filterElems)

\* build() for given iteration orders: the default document, the dataset name
\* inserted, then one Filter per filter entry, then one Attribute per name.
BuildWith(rootAttrs, ds, filterElems, attrs) ==
    LET q0 == QueryDefault(rootAttrs)
        d  == ChildIndex(q0, "Dataset")
        q1 == [q0 EXCEPT !.children[d].attributes = Insert(@, "name", ds)]
        q2 == PushAll(q1, filterElems)
    IN  PushAll(q2, [i \in 1..Len(attrs) |-> AttributeElement(attrs[i])])

\* Every document build() can return for a builder state.
BuildResults(ds, fs, attrs) ==
    LET choices == UNION {FilterElements(fs[i]) : i \in 1..Len(fs)}
        elemSeqs == {s \in [1..Len(fs) -> choices] :
                        \A i \in 1..Len(fs) : s[i] \in FilterElements(fs[i])}
    IN  {BuildWith(r, ds, s, attrs) : r \in RootOrders, s \in elemSeqs}

\* -------------------------------------------------------- Query::to_string
EscapeToken(t) ==
    CASE t = "&" -> "&amp;"
      [] t = "<" -> "&lt;"
      [] t = ">" -> "&gt;"
      [] t = "\"" -> "&quot;"
      [] t = "'" -> "&apos;"
      [] OTHER -> t

Escape(s) == [i \in 1..Len(s) |-> EscapeToken(s[i])]

WriteAttributes(attrs) ==
    Concat([i \in 1..Len(attrs) |->
              <<" ", attrs[i][1], "=\"">> \o Escape(attrs[i][2]) \o <<"\"">>])

RECURSIVE WriteElement(_)
WriteElement(e) ==
    <<"<", e.name>> \o WriteAttributes(e.attributes) \o
    (IF e.children = <<>> THEN <<" />">>
     ELSE <<">">>
          \o Concat([i \in 1..Len(e.children) |-> WriteElement(e.children[i])])
          \o <<"</", e.name, ">">>)

\* impl ToString for Query: Element::write into a buffer.
ToString(q) == <<"<?xml version=\"1.0\" encoding=\"UTF-8\"?>">> \o WriteElement(q)

\* ------------------------------------------------------------------ Result
Ok(v) == [kind |-> "Ok", value |-> v]
Err(e) == [kind |-> "Err", error |-> e]
\* A panic unwinds out of the call: nothing is returned.
Panic == [kind |-> "Panic"]

NoResult == [kind |-> "None"]
NoResponse == [sendOk |-> FALSE, status |-> 0, textOk |-> FALSE, body |-> <<>>]

\* definitions.rs: the two error types of the crate.
ServerError == [type |-> "ServerError", status |-> 0]
StatusError(status) == [type |-> "StatusError", status |-> status]
\* An error of the transport itself (send() or text() failed).
ReqwestError == [type |-> "reqwest::Error", status |-> 0]

\* reqwest StatusCode::is_success
IsSuccess(status) == 200 <= status /\ status <= 299

\* ------------------------------------------------------------- MartClient
\* make_request: one send(); the text of a success response, else an error.
\* resp is the transport's answer: [sendOk, status, textOk, body].
MakeRequest(params, resp) ==
    [sends  |-> << <<"requestid", REQUEST_ID>> \o params >>,
     result |-> IF ~resp.sendOk THEN Err(ReqwestError)
                ELSE IF IsSuccess(resp.status)
                     THEN IF resp.textOk THEN Ok(resp.body) ELSE Err(ReqwestError)
                     ELSE Err(StatusError(resp.status))]

\* ---------------------------------------------------------- field decoders
IsDigit(t) == t \in {"0", "1", "2", "3", "4", "5", "6", "7", "8", "9"}

DigitValue(t) ==
    CASE t = "0" -> 0 [] t = "1" -> 1 [] t = "2" -> 2 [] t = "3" -> 3
      [] t = "4" -> 4 [] t = "5" -> 5 [] t = "6" -> 6 [] t = "7" -> 7
      [] t = "8" -> 8 [] t = "9" -> 9

RECURSIVE DigitsValue(_)
DigitsValue(s) ==
    IF s = <<>> THEN 0
    ELSE 10 * DigitsValue(SubSeq(s, 1, Len(s) - 1)) + DigitValue(s[Len(s)])

\* str::parse of an unsigned integer: digits after an optional '+'. The
\* inputs of the model stay far below the width of usize.
ParseUnsigned(s) ==
    LET digits == IF s # <<>> /\ s[1] = "+" THEN Tail(s) ELSE s
    IN  IF digits # <<>> /\ \A i \in 1..Len(digits) : IsDigit(digits[i])
        THEN Ok(DigitsValue(digits))
        ELSE Err("ParseIntError")

U8Max == 255

ParseU8(s) ==
    LET r == ParseUnsigned(s)
    IN  IF r.kind = "Ok" /\ r.value > U8Max THEN Err("ParseIntError") ELSE r

\* definitions.rs bool_from_int: 0 and 1, anything else is an error.
BoolFromInt(s) ==
    LET r == ParseU8(s)
    IN  IF r.kind = "Err" THEN r
        ELSE IF r.value = 0 THEN Ok(FALSE)
        ELSE IF r.value = 1 THEN Ok(TRUE)
        ELSE Err("invalid value, expected zero or one")

\* serde_xml_rs, a bool out of an attribute value.
DeserializeBool(s) ==
    IF s \in {<<"t", "r", "u", "e">>, <<"1">>} THEN Ok(TRUE)
    ELSE IF s \in {<<"f", "a", "l", "s", "e">>, <<"0">>} THEN Ok(FALSE)
    ELSE Err("invalid value, expected a boolean")

DefaultOnErrorPropagating(r, default) == r

\* definitions.rs default_on_error_deserializer: the decoded value, or the
\* type's default when decoding fails.
DefaultOnError(r, default) == IF r.kind = "Ok" THEN Ok(r.value) ELSE Ok(default)

RECURSIVE SplitOn(_, _)
\* str::split: the pieces between the separators (one piece for no separator).
SplitOn(s, sep) ==
    IF \A i \in 1..Len(s) : s[i] # sep THEN <<s>>
    ELSE LET k == CHOOSE i \in 1..Len(s) :
                     s[i] = sep /\ \A j \in 1..(i - 1) : s[j] # sep
         IN  <<SubSeq(s, 1, k - 1)>> \o SplitOn(SubSeq(s, k + 1, Len(s)), sep)

\* serde_with StringWithSeparator::<CommaSeparator>: no element for the empty
\* string, else the pieces between the commas.
CommaSeparated(s) == IF s = <<>> THEN <<>> ELSE SplitOn(s, ",")

RECURSIVE TrimStartMatches(_, _)
TrimStartMatches(s, cs) ==
    IF s # <<>> /\ s[1] \in cs THEN TrimStartMatches(Tail(s), cs) ELSE s

RECURSIVE TrimEndMatches(_, _)
TrimEndMatches(s, cs) ==
    IF s # <<>> /\ s[Len(s)] \in cs
    THEN TrimEndMatches(SubSeq(s, 1, Len(s) - 1), cs) ELSE s

TrimMatchesLeadingOnly(s, cs) == TrimStartMatches(s, cs)

\* str::trim_matches: every leading and every trailing character of cs goes.
TrimMatches(s, cs) == TrimEndMatches(TrimStartMatches(s, cs), cs)

\* str::trim
Trim(s) == TrimMatches(s, {" ", "\t", "\n", "\r"})

\* ------------------------------------------------------------ mart registry
\* A MartURLLocation element is the function from its attribute names to
\* their values. The registry body is [wellFormed, marts].
RequiredAttributes ==
    {"host", "port", "database", "serverVirtualSchema", "displayName", "path", "name"}

\* A field with #[serde(default, deserialize_with = "default_on_error_deserializer")]
\* T::deserialize of an attribute value: a bool, or a String (any text).
DeserializeValue(type, s) == IF type = "bool" THEN DeserializeBool(s) ELSE Ok(s)

DefaultedField(e, key, type, default) ==
    IF key \in DOMAIN e
    THEN DefaultOnError(DeserializeValue(type, e[key]), default)
    ELSE Ok(default)

\* Deserialize for MartInfo out of one MartURLLocation element.
DeserializeMartInfo(e) ==
    IF ~(RequiredAttributes \subseteq DOMAIN e) THEN Err("missing field")
    ELSE
    LET port    == ParseUnsigned(e["port"])
        visible == DefaultedField(e, "visible", "bool", FALSE)
        user    == DefaultedField(e, "martUser", "String", <<>>)
        default == DefaultedField(e, "default", "bool", FALSE)
    IN  IF port.kind = "Err" THEN port
        ELSE IF visible.kind = "Err" THEN visible
        ELSE IF user.kind = "Err" THEN user
        ELSE IF default.kind = "Err" THEN default
        ELSE Ok([host |-> e["host"],
                 port |-> port.value,
                 database |-> e["database"],
                 include_datasets |->
                     IF "includeDatasets" \in DOMAIN e
                     THEN CommaSeparated(e["includeDatasets"]) ELSE <<>>,
                 visible |-> visible.value,
                 mart_user |-> user.value,
                 default |-> default.value,
                 server_virtual_schema |-> e["serverVirtualSchema"],
                 display_name |-> e["displayName"],
                 path |-> e["path"],
                 name |-> e["name"]])

\* serde_xml_rs from_reader::<MartRegistry>
FromReader(xml) ==
    IF ~xml.wellFormed THEN Err("syntax error")
    ELSE LET rs == [i \in 1..Len(xml.marts) |-> DeserializeMartInfo(xml.marts[i])]
         IN  IF \E i \in 1..Len(rs) : rs[i].kind = "Err"
             THEN Err("decode error")
             ELSE Ok([marts |-> [i \in 1..Len(rs) |-> rs[i].value]])

\* The closure of marts(): unwrap_or_else(panic!) on the decoded registry.
MartsParser(xml) ==
    LET r == FromReader(xml)
    IN  IF r.kind = "Ok" THEN Ok(r.value.marts) ELSE Panic

\* ----------------------------------------------------------------- listings
\* The csv reader (tab delimiter, no header row, not flexible): the records of
\* the non-empty lines; the first record sets the number of fields and every
\* record of another length is an UnequalLengths error.
CsvRecords(text) ==
    LET lines == SelectSeq(SplitOn(text, "\n"), LAMBDA l : l # <<>>)
        recs  == [i \in 1..Len(lines) |-> SplitOn(lines[i], "\t")]
    IN  [i \in 1..Len(recs) |->
            IF Len(recs[i]) = Len(recs[1]) THEN Ok(recs[i])
            ELSE Err("UnequalLengths")]

RECURSIVE FilterMapOk(_)
\* filter_map(Result::ok)
FilterMapOk(rs) ==
    IF rs = <<>> THEN <<>>
    ELSE (IF Head(rs).kind = "Ok" THEN <<Head(rs).value>> ELSE <<>>)
         \o FilterMapOk(Tail(rs))

DatasetInfoFields == 9
FilterInfoFields == 9
AttributeInfoFields == 7

\* Deserialize for DatasetInfo, the fields by position.
DeserializeDatasetInfo(rec) ==
    IF Len(rec) < DatasetInfoFields THEN Err("invalid length")
    ELSE LET visible == BoolFromInt(rec[4])
             u1 == ParseUnsigned(rec[6])
             u2 == ParseUnsigned(rec[7])
         IN  IF visible.kind = "Err" THEN visible
             ELSE IF u1.kind = "Err" THEN u1
             ELSE IF u2.kind = "Err" THEN u2
             ELSE Ok([kind |-> rec[1], dataset |-> rec[2], description |-> rec[3],
                      visible |-> visible.value, version |-> rec[5],
                      unknown_1 |-> u1.value, unknown_2 |-> u2.value,
                      unknown_3 |-> rec[8], date |-> rec[9]])

\* Deserialize for FilterType (snake_case names, #[serde(other)] Unknown).
DeserializeFilterType(s) ==
    CASE s = Str("boolean") -> "Boolean"
      [] s = Str("boolean_list") -> "BooleanList"
      [] s = Str("id_list") -> "IdList"
      [] s = Str("list") -> "List"
      [] s = Str("text") -> "Text"
      [] OTHER -> "Unknown"

\* Deserialize for FilterInfo, the fields by position.
DeserializeFilterInfo(rec) ==
    IF Len(rec) < FilterInfoFields THEN Err("invalid length")
    ELSE Ok([name |-> rec[1], description |-> rec[2],
             options |-> CommaSeparated(rec[3]),
             full_description |-> rec[4], filters |-> rec[5],
             kind |-> DeserializeFilterType(rec[6]), operation |-> rec[7],
             unknown_1 |-> rec[8], unknown_2 |-> rec[9]])

\* Deserialize for AttributeInfo, the fields by position.
DeserializeAttributeInfo(rec) ==
    IF Len(rec) < AttributeInfoFields THEN Err("invalid length")
    ELSE Ok([name |-> rec[1], description |-> rec[2], full_description |-> rec[3],
             page |-> rec[4], formats |-> CommaSeparated(rec[5]),
             unknown_1 |-> rec[6], unknown_2 |-> rec[7]])

\* Deserialize for the record type of a listing.
DeserializeRecord(type, rec) ==
    CASE type = "DatasetInfo" -> DeserializeDatasetInfo(rec)
      [] type = "FilterInfo" -> DeserializeFilterInfo(rec)
      [] type = "AttributeInfo" -> DeserializeAttributeInfo(rec)

\* deserialize::<T>() over the records of the trimmed body, errors dropped.
DeserializeRows(text, type) ==
    LET recs == CsvRecords(Trim(text))
    IN  FilterMapOk([i \in 1..Len(recs) |->
                        IF recs[i].kind = "Ok"
                        THEN DeserializeRecord(type, recs[i].value) ELSE recs[i]])

\* The map closure of filters(): the brackets around the options list.
TrimOptions(options) ==
    IF Len(options) = 0 THEN options
    ELSE IF Len(options) = 1
    THEN LET s == TrimMatches(options[1], {"[", "]"})
         IN  IF s # <<>> THEN <<s>> ELSE <<>>
    ELSE LET n == Len(options)
             first == [options EXCEPT ![1] = TrimMatches(@, {"["})]
         IN  [first EXCEPT ![n] = TrimMatches(@, {"]"})]

DatasetsParser(xml) == Ok(DeserializeRows(xml, "DatasetInfo"))

FiltersParser(tsv) ==
    LET infos == DeserializeRows(tsv, "FilterInfo")
    IN  Ok([i \in 1..Len(infos) |->
               [infos[i] EXCEPT !.options = TrimOptions(@)]])

AttributesParser(tsv) == Ok(DeserializeRows(tsv, "AttributeInfo"))

\* The closure of query(): the body becomes the Response.
QueryParser(xml) == Ok([raw |-> xml])

\* ------------------------------------------------------- request_and_parse
\* The closure each operation hands to request_and_parse.
Parse(parser, text) ==
    CASE parser = "query" -> QueryParser(text)
      [] parser = "marts" -> MartsParser(text)
      [] parser = "datasets" -> DatasetsParser(text)
      [] parser = "filters" -> FiltersParser(text)
      [] parser = "attributes" -> AttributesParser(text)

RequestAndParseAlways(params, resp, parser) ==
    LET r == MakeRequest(params, resp)
    IN  [sends |-> r.sends, parsed |-> 1, result |-> Parse(parser, resp.body)]

\* request_and_parse: make_request(query).and_then(parser)
RequestAndParse(params, resp, parser) ==
    LET r == MakeRequest(params, resp)
    IN  IF r.result.kind = "Ok"
        THEN [sends |-> r.sends, parsed |-> 1, result |-> Parse(parser, r.result.value)]
        ELSE [sends |-> r.sends, parsed |-> 0, result |-> r.result]

\* ------------------------------------------------------------------- inputs
MartNames == {Str("ensembl")}
DatasetNames == {Str("hsapiens_gene_ensembl")}
FilterNames == {Str("f")}
AttributeNames == {Str("p"), Str("q")}
AttributeLists == SeqsUpTo(AttributeNames, Cardinality(AttributeNames))
ValueLists == {<<>>, <<Str("a"), <<"b", "&">> >>}

\* What the transport can answer: no answer, an answer whose text cannot be
\* read, or a status with a body.
Statuses == {200, 204, 301, 404, 500}
Responses(bodies) ==
    {[sendOk |-> FALSE, status |-> 0, textOk |-> FALSE, body |-> <<>>]}
    \cup {[sendOk |-> TRUE, status |-> s, textOk |-> FALSE, body |-> <<>>] :
             s \in Statuses}
    \cup {[sendOk |-> TRUE, status |-> s, textOk |-> TRUE, body |-> b] :
             s \in Statuses, b \in bodies}

\* Tab-separated text of rows of fields.
RenderTsv(rows) ==
    Concat([i \in 1..Len(rows) |-> Join(rows[i], "\t") \o <<"\n">>])

\* Query results: nothing, or a header line and a row.
QueryBodies ==
    {<<>>, RenderTsv(<< <<Str("h1"), Str("h2")>>, <<Str("v1"), Str("v2")>> >>)}

QueryDocs == BuildResults(Str("d"), <<>>, <<Str("p")>>)

\* Registry entries: port, host, visible, martUser and default vary; an
\* argument is the set of the values the attribute has (none when absent).
MartEntry(port, host, visible, user, default) ==
    LET given == [k \in {"port", "host", "visible", "martUser", "default"} |->
                    CASE k = "port" -> port [] k = "host" -> host
                      [] k = "visible" -> visible [] k = "martUser" -> user
                      [] k = "default" -> default]
        fixed == (RequiredAttributes \cup {"includeDatasets"}) \ {"port", "host"}
    IN  [k \in fixed \cup {g \in DOMAIN given : given[g] # {}} |->
            IF k \in fixed
            THEN (IF k = "includeDatasets" THEN <<>> ELSE Str("s"))
            ELSE CHOOSE v \in given[k] : TRUE]

Flags == {{}, {Str("1")}, {Str("x")}}
MartEntries ==
    {MartEntry(p, h, v, u, d) :
        p \in {{<<"8", "0">>}, {Str("x")}},
        h \in {{Str("www.ensembl.org")}, {}},
        v \in Flags, u \in {{}, {Str("u")}}, d \in Flags}

RegistryBodies ==
    {[wellFormed |-> FALSE, marts |-> <<>>]}
    \cup {[wellFormed |-> TRUE, marts |-> ms] : ms \in SeqsUpTo(MartEntries, MaxMarts)}

\* Listing rows of n fields.
DatasetRow(n, visible, unknown, date) ==
    [i \in 1..n |-> IF i = 4 THEN visible
                    ELSE IF i \in {6, 7} THEN unknown
                    ELSE IF i = n THEN date ELSE Str("s")]

DatasetRows ==
    {DatasetRow(n, v, u, d) :
        n \in (DatasetInfoFields - 1)..(DatasetInfoFields + 1),
        v \in {Str("1"), Str("2")}, u \in {Str("5"), Str("x")},
        d \in {Str("s"), <<>>}}

DatasetBodies == {RenderTsv(rows) : rows \in SeqsUpTo(DatasetRows, MaxRows)}

FilterRow(n, options, kind) ==
    [i \in 1..n |-> IF i = 3 THEN options ELSE IF i = 6 THEN kind ELSE Str("s")]

OptionChars == {"[", "]", ",", "a"}
OptionStrings == SeqsUpTo(OptionChars, MaxOptionLen)

FilterRows ==
    {FilterRow(n, o, k) :
        n \in (FilterInfoFields - 1)..(FilterInfoFields + 1),
        o \in {<<>>, <<"[", "a", ",", "a", "]">>},
        k \in {Str("boolean"), Str("new")}}

FilterBodies ==
    {RenderTsv(rows) : rows \in SeqsUpTo(FilterRows, MaxRows)}
    \cup {RenderTsv(<<FilterRow(FilterInfoFields, o, Str("list"))>>) : o \in OptionStrings}

AttributeRow(n, formats, last) ==
    [i \in 1..n |-> IF i = 5 THEN formats ELSE IF i = n THEN last ELSE Str("s")]

AttributeRows ==
    {AttributeRow(n, f, l) :
        n \in (AttributeInfoFields - 1)..(AttributeInfoFields + 1),
        f \in {<<>>, <<"a", ",", "a">>}, l \in {Str("s"), <<>>}}

AttributeBodies == {RenderTsv(rows) : rows \in SeqsUpTo(AttributeRows, MaxRows)}

\* --------------------------------------------------------------------- Init
Init ==
    /\ mart = <<>>
    /\ dataset = <<>>
    /\ filters = <<>>
    /\ attributes = <<>>
    /\ docs = <<>>
    /\ built = <<>>
    /\ calls = <<>>
    /\ steps = 0
    /\ pc = "idle"
    /\ op = "none"
    /\ response = NoResponse
    /\ requests = <<>>
    /\ parsed = 0
    /\ result = NoResult
    /\ raw = <<>>
    /\ views = <<>>

\* ------------------------------------------------------- QueryBuilder calls
BuilderMart(m) ==
    /\ steps < MaxOps
    /\ steps' = steps + 1
    /\ mart' = m
    /\ UNCHANGED <<dataset, filters, attributes, docs, built, calls>>
    /\ UNCHANGED clientVars
    /\ UNCHANGED responseVars

BuilderDataset(d) ==
    /\ steps < MaxOps
    /\ steps' = steps + 1
    /\ dataset' = d
    /\ UNCHANGED <<mart, filters, attributes, docs, built, calls>>
    /\ UNCHANGED clientVars
    /\ UNCHANGED responseVars

BuilderFilter(name, values) ==
    /\ steps < MaxOps
    /\ steps' = steps + 1
    /\ filters' = Append(filters, <<name, Match(values)>>)
    /\ calls' = Append(calls, [kind |-> "Filter", name |-> name, operation |-> Match(values)])
    /\ UNCHANGED <<mart, dataset, attributes, docs, built>>
    /\ UNCHANGED clientVars
    /\ UNCHANGED responseVars

BuilderFilterBool(name, include) ==
    /\ steps < MaxOps
    /\ steps' = steps + 1
    /\ LET operation == IF include THEN Include ELSE Exclude
       IN  /\ filters' = Append(filters, <<name, operation>>)
           /\ calls' = Append(calls, [kind |-> "Filter", name |-> name, operation |-> operation])
    /\ UNCHANGED <<mart, dataset, attributes, docs, built>>
    /\ UNCHANGED clientVars
    /\ UNCHANGED responseVars

BuilderAttribute(a) ==
    /\ steps < MaxOps
    /\ steps' = steps + 1
    /\ attributes' = Append(attributes, a)
    /\ calls' = Append(calls, [kind |-> "Attribute", name |-> a, operation |-> Include])
    /\ UNCHANGED <<mart, dataset, filters, docs, built>>
    /\ UNCHANGED clientVars
    /\ UNCHANGED responseVars

BuilderAttributes(as) ==
    /\ steps < MaxOps
    /\ steps' = steps + 1
    /\ attributes' = attributes \o as
    /\ calls' = calls \o [i \in 1..Len(as) |->
                            [kind |-> "Attribute", name |-> as[i], operation |-> Include]]
    /\ UNCHANGED <<mart, dataset, filters, docs, built>>
    /\ UNCHANGED clientVars
    /\ UNCHANGED responseVars

BuilderBuildDraining ==
    /\ steps < MaxOps
    /\ steps' = steps + 1
    /\ \E q \in BuildResults(dataset, filters, attributes) :
          docs' = Append(docs, q)
    /\ built' = Append(built, [dataset |-> dataset, filters |-> filters,
                               attributes |-> attributes, calls |-> calls])
    /\ filters' = <<>>
    /\ UNCHANGED <<mart, dataset, attributes, calls>>
    /\ UNCHANGED clientVars
    /\ UNCHANGED responseVars

BuilderBuild ==
    /\ steps < MaxOps
    /\ steps' = steps + 1
    /\ \E q \in BuildResults(dataset, filters, attributes) :
          docs' = Append(docs, q)
    /\ built' = Append(built, [dataset |-> dataset, filters |-> filters,
                               attributes |-> attributes, calls |-> calls])
    /\ UNCHANGED <<mart, dataset, filters, attributes, calls>>
    /\ UNCHANGED clientVars
    /\ UNCHANGED responseVars

Next ==
    \/ \E m \in MartNames : BuilderMart(m)
    \/ \E d \in DatasetNames : BuilderDataset(d)
    \/ \E n \in FilterNames, vs \in ValueLists : BuilderFilter(n, vs)
    \/ \E n \in FilterNames, b \in BOOLEAN : BuilderFilterBool(n, b)
    \/ \E a \in AttributeNames : BuilderAttribute(a)
    \/ \E as \in AttributeLists : BuilderAttributes(as)
    \/ BuilderBuild

Spec == Init /\ [][Next]_vars

\* ------------------------------------------------------- MartClient calls
\* One call of an operation: the request, and the decoder on success.
Call(name, out, resp) ==
    /\ pc' = IF out.result.kind = "Panic" THEN "panicked" ELSE "returned"
    /\ op' = name
    /\ response' = resp
    /\ requests' = out.sends
    /\ parsed' = out.parsed
    /\ result' = out.result
    /\ UNCHANGED queryVars
    /\ UNCHANGED responseVars

ClientQuery ==
    /\ pc = "idle"
    /\ \E q \in QueryDocs, resp \in Responses(QueryBodies) :
        Call("query",
             RequestAndParse(<<"query", ToString(q)>>, resp, "query"), resp)

ClientMarts ==
    /\ pc = "idle"
    /\ \E resp \in Responses(RegistryBodies) :
        Call("marts",
             RequestAndParse(<<"type", Str("registry")>>, resp, "marts"), resp)

ClientDatasets ==
    /\ pc = "idle"
    /\ \E m \in MartNames, resp \in Responses(DatasetBodies) :
        Call("datasets",
             RequestAndParse(<<"mart", m, "type", Str("datasets")>>, resp,
                             "datasets"), resp)

ClientFilters ==
    /\ pc = "idle"
    /\ \E m \in MartNames, d \in DatasetNames, resp \in Responses(FilterBodies) :
        Call("filters",
             RequestAndParse(<<"mart", m, "dataset", d, "type", Str("filters")>>,
                             resp, "filters"), resp)

ClientAttributes ==
    /\ pc = "idle"
    /\ \E m \in MartNames, d \in DatasetNames, resp \in Responses(AttributeBodies) :
        Call("attributes",
             RequestAndParse(<<"mart", m, "dataset", d, "type", Str("attributes")>>,
                             resp, "attributes"), resp)

\* The caller is done with what the call returned.
Return ==
    /\ pc = "returned"
    /\ pc' = "idle"
    /\ op' = "none"
    /\ response' = NoResponse
    /\ requests' = <<>>
    /\ parsed' = 0
    /\ result' = NoResult
    /\ UNCHANGED queryVars
    /\ UNCHANGED responseVars

NextClient ==
    \/ ClientQuery
    \/ ClientMarts
    \/ ClientDatasets
    \/ ClientFilters
    \/ ClientAttributes
    \/ Return

SpecClient == Init /\ [][NextClient]_vars

\* ----------------------------------------------------------------- Response
\* The csv reader's record splitter (tab delimiter, '"' quoting with doubled
\* quotes, line terminators): the text is read character by character; st is
\* the reader's state, field and rec the field and record being read, recs
\* the records read so far. Empty lines give no record; inside a quoted
\* field tabs and line ends are data.
Terminators == {"\n", "\r"}

RECURSIVE CsvStep(_, _, _, _, _, _)
CsvStep(t, i, st, field, rec, recs) ==
    IF i > Len(t)
    THEN IF st = "StartRecord" THEN recs ELSE Append(recs, Append(rec, field))
    ELSE LET c == t[i]
             endField  == CsvStep(t, i + 1, "StartField", <<>>,
                                  Append(rec, field), recs)
             endRecord == CsvStep(t, i + 1, "StartRecord", <<>>, <<>>,
                                  Append(recs, Append(rec, field)))
             copy(to)  == CsvStep(t, i + 1, to, Append(field, c), rec, recs)
         IN  CASE st = "StartRecord" ->
                    IF c \in Terminators
                    THEN CsvStep(t, i + 1, "StartRecord", <<>>, <<>>, recs)
                    ELSE CsvStep(t, i, "StartField", <<>>, <<>>, recs)
               [] st = "StartField" ->
                    IF c = "\t" THEN endField
                    ELSE IF c \in Terminators THEN endRecord
                    ELSE IF c = "\"" THEN
                        CsvStep(t, i + 1, "InQuotedField", field, rec, recs)
                    ELSE copy("InField")
               [] st = "InField" ->
                    IF c = "\t" THEN endField
                    ELSE IF c \in Terminators THEN endRecord
                    ELSE copy("InField")
               [] st = "InQuotedField" ->
                    IF c = "\"" THEN
                        CsvStep(t, i + 1, "InDoubleEscapedQuote", field, rec, recs)
                    ELSE copy("InQuotedField")
               [] st = "InDoubleEscapedQuote" ->
                    IF c = "\"" THEN copy("InQuotedField")
                    ELSE IF c = "\t" THEN endField
                    ELSE IF c \in Terminators THEN endRecord
                    ELSE copy("InField")

CsvRead(text) == CsvStep(text, 1, "StartRecord", <<>>, <<>>, <<>>)

Some(v) == [kind |-> "Some", value |-> v]

\* Response::header: the reader's header record, the empty record when the
\* text holds no record; headers() has no error for text that is a String.
ResponseHeader(text) ==
    LET recs == CsvRead(text)
    IN  Some(IF recs = <<>> THEN <<>> ELSE recs[1])

\* The results the records() iterator yields (header row on, not flexible):
\* the records after the header record, an UnequalLengths error for each
\* whose length is not the header record's.
RecordsIter(text) ==
    LET recs == CsvRead(text)
    IN  [i \in 1..(Len(recs) - 1) |->
            IF Len(recs[i + 1]) = Len(recs[1]) THEN Ok(recs[i + 1])
            ELSE Err("UnequalLengths")]

\* Response::records
ResponseRecords(text) == FilterMapOk(RecordsIter(text))

\* The texts a Response can hold: up to MaxRows + 1 lines of one or two
\* fields each; a field is empty, a letter or a quote character.
FieldCounts == {1, 2}
FieldValues == {<<>>, Str("a"), Str("\"")}
ResponseLines == UNION {[1..n -> FieldValues] : n \in FieldCounts}
ResponseRows == SeqsUpTo(ResponseLines, MaxRows + 1)
ResponseTexts == {RenderTsv(rows) : rows \in ResponseRows}

\* A Response as query() returns it, held by the caller.
InitResponse ==
    /\ mart = <<>>
    /\ dataset = <<>>
    /\ filters = <<>>
    /\ attributes = <<>>
    /\ docs = <<>>
    /\ built = <<>>
    /\ calls = <<>>
    /\ steps = 0
    /\ pc = "idle"
    /\ op = "none"
    /\ response = NoResponse
    /\ requests = <<>>
    /\ parsed = 0
    /\ result = NoResult
    /\ raw \in ResponseTexts
    /\ views = <<>>

\* One call on the Response (&self): the text before and after, and what
\* the call returned.
View(call, value) ==
    /\ Len(views) < MaxViews
    /\ views' = Append(views, [call |-> call, before |-> raw, value |-> value])
    /\ raw' = raw
    /\ UNCHANGED queryVars
    /\ UNCHANGED clientVars

CallRaw == View("raw", raw)

CallHeader == View("header", ResponseHeader(raw))

CallRecords == View("records", ResponseRecords(raw))

NextResponse ==
    \/ CallRaw
    \/ CallHeader
    \/ CallRecords

SpecResponse == InitResponse /\ [][NextResponse]_vars


\* ------------------------------------------------------ views of a document
DatasetOf(q) == q.children[ChildIndex(q, "Dataset")]

\* The attribute map of an element, whatever its iteration order.
AttrMap(e) == [k \in Keys(e.attributes) |-> Get(e.attributes, k)]

FilterChildren(q) == SelectSeq(DatasetOf(q).children, LAMBDA e : e.name = "Filter")
AttributeChildren(q) == SelectSeq(DatasetOf(q).children, LAMBDA e : e.name = "Attribute")

\* A Filter element that says what the filter entry (name, operation) asks for.
SaysFilter(e, name, operation) ==
    /\ e.name = "Filter"
    /\ e.children = <<>>
    /\ Len(e.attributes) = 2
    /\ "name" \in Keys(e.attributes)
    /\ Get(e.attributes, "name") = name
    /\ CASE operation.op = "Match" ->
              /\ Keys(e.attributes) = {"name", "value"}
              /\ Get(e.attributes, "value") = Join(operation.values, ",")
         [] operation.op = "Exclude" ->
              /\ Keys(e.attributes) = {"name", "excluded"}
              /\ Get(e.attributes, "excluded") = Str("1")
         [] operation.op = "Include" ->
              /\ Keys(e.attributes) = {"name", "excluded"}
              /\ Get(e.attributes, "excluded") = Str("0")

SaysAttribute(e, name) ==
    /\ e.name = "Attribute"
    /\ e.children = <<>>
    /\ e.attributes = << <<"name", name>> >>

\* The element says what the call c added.
SaysCall(e, c) ==
    IF c.kind = "Filter" THEN SaysFilter(e, c.name, c.operation)
    ELSE SaysAttribute(e, c.name)

\* -------------------------------------------------------------------- C1
\* C1 as stated: in every built document the i-th child of the Dataset
\* element is the element of the i-th filter or attribute added, whatever the
\* interleaving of the calls.
C1_ChildrenInCallOrder ==
    \A d \in 1..Len(docs) :
        LET ch == DatasetOf(docs[d]).children
            cs == built[d].calls
        IN  /\ Len(ch) = Len(cs)
            /\ \A i \in 1..Len(cs) : SaysCall(ch[i], cs[i])

\* C1 amended: within each kind the order of the calls is kept: the i-th
\* Filter element is the element of the i-th filter added and the j-th
\* Attribute element is the element of the j-th attribute added.
C1_OrderWithinKind ==
    \A d \in 1..Len(docs) :
        LET fe == FilterChildren(docs[d])
            ae == AttributeChildren(docs[d])
            fc == SelectSeq(built[d].calls, LAMBDA c : c.kind = "Filter")
            ac == SelectSeq(built[d].calls, LAMBDA c : c.kind = "Attribute")
        IN  /\ Len(fe) = Len(fc)
            /\ Len(ae) = Len(ac)
            /\ \A i \in 1..Len(fc) : SaysCall(fe[i], fc[i])
            /\ \A j \in 1..Len(ac) : SaysCall(ae[j], ac[j])

\* A document built after attribute, filter, attribute with distinct names.
C1_Witness ==
    \E d \in 1..Len(docs) :
        LET cs == built[d].calls
        IN  /\ Len(cs) = 3
            /\ cs[1].kind = "Attribute"
            /\ cs[2].kind = "Filter"
            /\ cs[3].kind = "Attribute"
            /\ cs[1].name # cs[3].name

\* -------------------------------------------------------------------- C2
\* C2 as stated: two documents built from the same builder state serialize
\* to the same text, attribute order included.
C2_SameStateSameText ==
    \A i, j \in 1..Len(docs) :
        built[i] = built[j] => ToString(docs[i]) = ToString(docs[j])

\* -------------------------------------------------------------------- C3
\* The text of a Filter element: either arrangement of its two attributes.
FilterTexts(name, key, value) ==
    LET n == <<" ", "name", "=\"">> \o Escape(name) \o <<"\"">>
        v == <<" ", key, "=\"">> \o Escape(value) \o <<"\"">>
    IN  {<<"<", "Filter">> \o n \o v \o <<" />">>,
         <<"<", "Filter">> \o v \o n \o <<" />">>}

\* C3: every filter entry of the builder becomes exactly one Filter element
\* with its name and exactly one more attribute: value (the values joined by
\* ',', empty for no value) for a match filter, excluded="1" for
\* filter_bool(false), excluded="0" for filter_bool(true).
C3_FilterElements ==
    \A d \in 1..Len(docs) :
        LET fe == FilterChildren(docs[d])
            fs == built[d].filters
        IN  /\ Len(fe) = Len(fs)
            /\ \A i \in 1..Len(fs) :
                  /\ SaysFilter(fe[i], fs[i][1], fs[i][2])
                  /\ WriteElement(fe[i]) \in
                        (CASE fs[i][2].op = "Match" ->
                                FilterTexts(fs[i][1], "value", Join(fs[i][2].values, ","))
                           [] fs[i][2].op = "Exclude" ->
                                FilterTexts(fs[i][1], "excluded", Str("1"))
                           [] fs[i][2].op = "Include" ->
                                FilterTexts(fs[i][1], "excluded", Str("0")))

\* A document built from a match filter of two values, an exclude filter and
\* an include filter.
C3_Witness ==
    \E d \in 1..Len(docs) :
        LET fs == built[d].filters
        IN  /\ \E i \in 1..Len(fs) : fs[i][2].op = "Match" /\ Len(fs[i][2].values) = 2
            /\ \E i \in 1..Len(fs) : fs[i][2] = Exclude
            /\ \E i \in 1..Len(fs) : fs[i][2] = Include

\* -------------------------------------------------------------------- C4
\* The element of a filter entry or attribute name, iteration order aside.
Plain(e) == [name |-> e.name, attributes |-> AttrMap(e), children |-> e.children]

\* q is the default document with one Dataset element named ds that holds
\* each entry of fs and each name of as exactly once.
FreshDocument(q, ds, fs, as) ==
    LET ch == DatasetOf(q).children
        want == [i \in 1..(Len(fs) + Len(as)) |->
                    IF i <= Len(fs)
                    THEN [name |-> "Filter",
                          attributes |-> FilterAttributes(fs[i][1], fs[i][2]),
                          children |-> <<>>]
                    ELSE [name |-> "Attribute",
                          attributes |-> [k \in {"name"} |-> as[i - Len(fs)]],
                          children |-> <<>>]]
    IN  /\ q.name = "Query"
        /\ AttrMap(q) = AttrMap([attributes |-> DefaultAttributes])
        /\ Len(q.attributes) = Len(DefaultAttributes)
        /\ Len(q.children) = 1
        /\ q.children[1].name = "Dataset"
        /\ q.children[1].attributes = << <<"name", ds>> >>
        /\ Len(ch) = Len(want)
        /\ \A i \in 1..Len(want) :
              Cardinality({j \in 1..Len(ch) : Plain(ch[j]) = want[i]})
                  = Cardinality({j \in 1..Len(want) : want[j] = want[i]})

\* C4: a step that changes the built documents is a build(): it leaves the
\* builder as it is, keeps every earlier document as it was and adds one
\* document, which is the default document with one Dataset element named by
\* the current dataset and holding each filter and attribute once.
C4_BuildIsPure ==
    [][docs' # docs =>
        /\ builderVars' = builderVars
        /\ Len(docs') = Len(docs) + 1
        /\ SubSeq(docs', 1, Len(docs)) = docs
        /\ FreshDocument(docs'[Len(docs')], dataset, filters, attributes)]_vars

\* Two documents, the second built after dataset() and one more filter or
\* attribute call than the first.
C4_Witness ==
    /\ Len(docs) = 2
    /\ built[1].dataset # built[2].dataset
    /\ Len(built[2].calls) > Len(built[1].calls)

\* ------------------------------------------------- views of a client call
Called == pc # "idle"
Succeeded == response.sendOk /\ IsSuccess(response.status) /\ response.textOk
Refused == response.sendOk /\ ~IsSuccess(response.status)

\* The rows of a listing body, each the sequence of its fields.
BodyRows(text) ==
    LET lines == SelectSeq(SplitOn(text, "\n"), LAMBDA l : l # <<>>)
    IN  [i \in 1..Len(lines) |-> SplitOn(lines[i], "\t")]

\* -------------------------------------------------------------------- C5
\* C5 as stated: a 5xx status is reported as the server error, any other
\* non-success status as a status error carrying the code.
C5_StatusClasses ==
    (Called /\ Refused) =>
        /\ result.kind = "Err"
        /\ IF 500 <= response.status /\ response.status <= 599
           THEN result.error.type = ServerError.type
           ELSE result.error = StatusError(response.status)

\* -------------------------------------------------------------------- C6
\* C6: a call sends exactly one request; its decoder runs at most once and
\* only after a success status; after a transport failure or a non-success
\* status the decoder has not run and the call returned an error.
C6_OneRequestDecodeOnSuccess ==
    Called =>
        /\ Len(requests) = 1
        /\ parsed \in {0, 1}
        /\ parsed = 1 => (response.sendOk /\ IsSuccess(response.status))
        /\ (~response.sendOk \/ ~IsSuccess(response.status)) =>
              (parsed = 0 /\ pc = "returned" /\ result.kind = "Err")

\* filters() answered 404 with a listing in the body.
C6_Witness ==
    /\ pc = "returned"
    /\ op = "filters"
    /\ response.sendOk
    /\ response.status = 404
    /\ Len(BodyRows(response.body)) = 2
    /\ parsed = 0

\* -------------------------------------------------------------------- C7
\* A registry body that decodes: well-formed, every entry with its required
\* attributes and a port that is a number.
RequiredValid(e) ==
    /\ RequiredAttributes \subseteq DOMAIN e
    /\ ParseUnsigned(e["port"]).kind = "Ok"

RegistryDecodable(xml) ==
    /\ xml.wellFormed
    /\ \A i \in 1..Len(xml.marts) : RequiredValid(xml.marts[i])

\* C7 as stated: every call ends with a success value or a returned error,
\* and marts() returns an error for a success response it cannot decode.
C7_DecodeErrorReturned ==
    Called =>
        /\ result.kind \in {"Ok", "Err"}
        /\ (op = "marts" /\ Succeeded /\ ~RegistryDecodable(response.body)) =>
              result.kind = "Err"

\* -------------------------------------------------------------------- C8
Listings == {"datasets", "filters", "attributes"}

\* What one row of a listing decodes to, taken alone.
RowResult(name, row) ==
    CASE name = "datasets" -> DeserializeDatasetInfo(row)
      [] name = "filters" ->
            LET r == DeserializeFilterInfo(row)
            IN  IF r.kind = "Ok"
                THEN Ok([r.value EXCEPT !.options = TrimOptions(@)]) ELSE r
      [] name = "attributes" -> DeserializeAttributeInfo(row)

\* C8 as stated: a listing call returns exactly the rows that decode, in
\* their order.
C8_ExactlyDecodableRows ==
    (Called /\ op \in Listings /\ Succeeded) =>
        LET rows == BodyRows(response.body)
        IN  /\ result.kind = "Ok"
            /\ result.value =
                  FilterMapOk([i \in 1..Len(rows) |-> RowResult(op, rows[i])])

\* -------------------------------------------------------------------- C9
\* r is s without a run of characters of cs at its start and at its end,
\* and no such character is left at either end of r.
IsTrimmed(r, s, cs) ==
    \E i \in 0..Len(s) : \E j \in i..Len(s) :
        /\ r = SubSeq(s, i + 1, j)
        /\ \A k \in 1..i : s[k] \in cs
        /\ \A k \in (j + 1)..Len(s) : s[k] \in cs
        /\ r = <<>> \/ (r[1] \notin cs /\ r[Len(r)] \notin cs)

\* list is the field s split at its commas.
IsCommaSplit(list, s) ==
    IF s = <<>> THEN list = <<>>
    ELSE /\ Len(list) >= 1
         /\ Join(list, ",") = s
         /\ \A i \in 1..Len(list) : \A k \in 1..Len(list[i]) : list[i][k] # ","

StripOneLeading(s, c) == IF s # <<>> /\ s[1] = c THEN Tail(s) ELSE s
StripOneTrailing(s, c) ==
    IF s # <<>> /\ s[Len(s)] = c THEN SubSeq(s, 1, Len(s) - 1) ELSE s

\* The policy as C9 states it.
StatedOptions(list) ==
    IF Len(list) = 0 THEN <<>>
    ELSE IF Len(list) = 1
    THEN LET s == TrimEndMatches(TrimStartMatches(list[1], {"["}), {"]"})
         IN  IF s = <<>> THEN <<>> ELSE <<s>>
    ELSE [i \in 1..Len(list) |->
            IF i = 1 THEN StripOneLeading(list[i], "[")
            ELSE IF i = Len(list) THEN StripOneTrailing(list[i], "]")
            ELSE list[i]]

\* A filters() call that kept every row of the body.
KeptAllFilterRows ==
    /\ pc = "returned"
    /\ op = "filters"
    /\ Succeeded
    /\ result.kind = "Ok"
    /\ Len(result.value) = Len(BodyRows(response.body))

\* C9 as stated: the options of a decoded FilterInfo are the comma-split
\* field with '[' stripped at the start and ']' at the end only: all of them
\* for one element, one of them for two or more elements.
C9_StatedPolicy ==
    KeptAllFilterRows =>
        \A i \in 1..Len(result.value) :
            result.value[i].options =
                StatedOptions(CommaSeparated(BodyRows(response.body)[i][3]))

\* C9 amended: no element stays empty; one element loses every leading and
\* trailing '[' and ']' (the list is empty if nothing is left); with two or
\* more elements the first loses every leading and trailing '[', the last
\* every leading and trailing ']', and nothing else changes.
C9_TrimBothEnds ==
    KeptAllFilterRows =>
        \A i \in 1..Len(result.value) :
            LET list == CommaSeparated(BodyRows(response.body)[i][3])
                got  == result.value[i].options
                n    == Len(list)
            IN  /\ IsCommaSplit(list, BodyRows(response.body)[i][3])
                /\ n = 0 => got = <<>>
                /\ n = 1 =>
                      \/ got = <<>> /\ IsTrimmed(<<>>, list[1], {"[", "]"})
                      \/ /\ Len(got) = 1
                         /\ got[1] # <<>>
                         /\ IsTrimmed(got[1], list[1], {"[", "]"})
                /\ n >= 2 =>
                      /\ Len(got) = n
                      /\ IsTrimmed(got[1], list[1], {"["})
                      /\ IsTrimmed(got[n], list[n], {"]"})
                      /\ \A k \in 2..(n - 1) : got[k] = list[k]

\* The field "]a[" decoded to the one option "a", and the field "a[,a" to
\* the options "a" and "a" in another call.
C9_Witness ==
    /\ KeptAllFilterRows
    /\ Len(result.value) = 1
    /\ BodyRows(response.body)[1][3] \in {<<"]", "a", "[">>, <<"a", "[", ",">>}
    /\ result.value[1].options \in {<< <<"a">> >>, << <<"a">>, <<>> >>}

\* ------------------------------------------------------------------- C10
BoolTexts == {<<"1">>, <<"0">>, <<"t", "r", "u", "e">>, <<"f", "a", "l", "s", "e">>}

\* The flag decoded from attribute key of entry e is b: true for "1", false
\* when the attribute is absent or no boolean.
FlagAsStated(e, key, b) ==
    /\ (key \in DOMAIN e /\ e[key] = <<"1">>) => b = TRUE
    /\ (key \notin DOMAIN e \/ e[key] \notin BoolTexts) => b = FALSE

\* C10: a registry whose entries have valid required fields decodes, one
\* MartInfo per entry, whatever visible, martUser and default hold: 1 gives
\* true, an absent or undecodable flag false, an absent martUser "".
C10_FlagsDefaulted ==
    (pc # "idle" /\ op = "marts" /\ Succeeded /\ RegistryDecodable(response.body)) =>
        /\ result.kind = "Ok"
        /\ Len(result.value) = Len(response.body.marts)
        /\ \A i \in 1..Len(result.value) :
              LET e == response.body.marts[i]
                  m == result.value[i]
              IN  /\ FlagAsStated(e, "visible", m.visible)
                  /\ FlagAsStated(e, "default", m.default)
                  /\ "martUser" \notin DOMAIN e => m.mart_user = <<>>
                  /\ "martUser" \in DOMAIN e => m.mart_user = e["martUser"]
                  /\ m.port = ParseUnsigned(e["port"]).value

\* marts() returned an entry whose visible was no boolean, whose default was
\* 1 and whose martUser was absent.
C10_Witness ==
    /\ pc = "returned"
    /\ op = "marts"
    /\ result.kind = "Ok"
    /\ \E i \in 1..Len(result.value) :
          LET e == response.body.marts[i]
          IN  /\ "visible" \in DOMAIN e /\ e["visible"] \notin BoolTexts
              /\ "default" \in DOMAIN e /\ e["default"] = <<"1">>
              /\ "martUser" \notin DOMAIN e
              /\ result.value[i].visible = FALSE
              /\ result.value[i].default = TRUE

\* ------------------------------------------------------------------- C12
\* C12: in every built document the children of the Dataset element are the
\* Filter elements of all filter/filter_bool calls, in call order, followed
\* by the Attribute elements of all attribute/attributes calls, in call
\* order, whatever the interleaving of the calls; a name added twice has two
\* elements.
C12_FiltersThenAttributes ==
    \A d \in 1..Len(docs) :
        LET ch == DatasetOf(docs[d]).children
            fc == SelectSeq(built[d].calls, LAMBDA c : c.kind = "Filter")
            ac == SelectSeq(built[d].calls, LAMBDA c : c.kind = "Attribute")
            nf == Len(fc)
        IN  /\ Len(ch) = nf + Len(ac)
            /\ \A i \in 1..Len(ch) :
                  IF i <= nf
                  THEN ch[i].name = "Filter" /\ SaysCall(ch[i], fc[i])
                  ELSE ch[i].name = "Attribute" /\ SaysCall(ch[i], ac[i - nf])

\* A document built after attribute, filter, attribute where both attribute
\* calls name the same attribute.
C12_Witness ==
    \E d \in 1..Len(docs) :
        LET cs == built[d].calls
            ch == DatasetOf(docs[d]).children
        IN  /\ Len(cs) = 3
            /\ cs[1].kind = "Attribute"
            /\ cs[2].kind = "Filter"
            /\ cs[3].kind = "Attribute"
            /\ cs[1].name = cs[3].name
            /\ Len(ch) = 3

\* ------------------------------------------------------------------- C11
\* The lines of a text as the claim reads them: the pieces ended by a line
\* feed, each split at its tabs.
StatedLines(text) ==
    LET p == SplitOn(text, "\n")
        l == IF p[Len(p)] = <<>> THEN SubSeq(p, 1, Len(p) - 1) ELSE p
    IN  [i \in 1..Len(l) |-> SplitOn(l[i], "\t")]

EqualFieldCounts(text) ==
    LET ls == StatedLines(text)
    IN  /\ ls # <<>>
        /\ \A i \in 1..Len(ls) : Len(ls[i]) = Len(ls[1])

\* C11 as stated: for a Response whose raw text is tab-separated lines with
\* equal field counts, header() returns the fields of the first line and
\* records() returns one record per remaining line, in order, holding that
\* line's fields; no call changes the raw text, and repeated calls return
\* equal results.
C11_HeaderAndRecords ==
    EqualFieldCounts(raw) =>
        /\ \A i \in 1..Len(views) :
              /\ views[i].before = raw
              /\ views[i].call = "raw" => views[i].value = raw
              /\ views[i].call = "header" =>
                    views[i].value = Some(StatedLines(raw)[1])
              /\ views[i].call = "records" =>
                    views[i].value = Tail(StatedLines(raw))
        /\ \A i, j \in 1..Len(views) :
              views[i].call = views[j].call => views[i].value = views[j].value

====
